---- MODULE Spec2Model ----
\* Cross-chain bridge event listener (src/script.py): the StateDB dedup store,
\* process_event, and the polling loop of CrossChainEventListener.listen,
\* together with the db file, the source chain and process restarts.
EXTENDS Integers, Sequences, FiniteSets, TLC

\* ---------------------------------------------------------------- bounds
MaxBlock == 2       \* the source chain grows to at most this height
MaxMints == 2       \* cap of the per-run mint counter

\* ------------------------------------------------------- program constants
poll_interval == 15          \* CONFIG['listener']['poll_interval_seconds']
DestChainId == 80001         \* destination_connector.web3.eth.chain_id

\* ------------------------------------------------------------ Python values
\* A value of an event argument as args.get() returns it: None, an int or a str.
PyNone == [t |-> "none", n |-> 0, s |-> ""]
PyInt(k) == [t |-> "int", n |-> k, s |-> ""]
PyStr(x) == [t |-> "str", n |-> 0, s |-> x]

\* Python truthiness, as all([...]) applies it to each argument.
Truthy(v) ==
    CASE v.t = "none" -> FALSE
      [] v.t = "int" -> v.n # 0
      [] v.t = "str" -> v.s # ""

TxIds == {"0xa", "0xb", "0xc"}

Ev(tx, sender, amount, chain) ==
    [tx |-> tx, sender |-> sender, amount |-> amount, toChainId |-> chain]

Good(tx) == Ev(tx, PyStr("0xS"), PyInt(100), PyInt(DestChainId))
WrongChainEv(tx) == Ev(tx, PyStr("0xS"), PyInt(100), PyInt(1))
NoAmount(tx) == Ev(tx, PyStr("0xS"), PyNone, PyInt(DestChainId))
ZeroAmount(tx) == Ev(tx, PyStr("0xS"), PyInt(0), PyInt(DestChainId))
EmptySender(tx) == Ev(tx, PyStr(""), PyInt(100), PyInt(DestChainId))
NoChain(tx) == Ev(tx, PyStr("0xS"), PyInt(100), PyNone)

\* The log entries one block of the source chain may hold, in log-index order.
BlockBodies ==
    { <<>>,
      <<Good("0xa")>>,
      <<NoAmount("0xb"), Good("0xc")>>,
      <<WrongChainEv("0xb"), Good("0xa")>>,
      <<ZeroAmount("0xc"), EmptySender("0xb"), NoChain("0xa")>> }

\* ------------------------------------------------------------- the db file
\* The content of the db file: absent, or text that json.load rejects
\* ("invalid"), or valid JSON of one of four shapes.
DbAbsent == [kind |-> "absent", txs |-> <<>>]
DbInvalid == [kind |-> "invalid", txs |-> <<>>]
DbArray == [kind |-> "array", txs |-> <<>>]
DbNoKey == [kind |-> "object_no_key", txs |-> <<>>]
DbNumber == [kind |-> "object_number", txs |-> <<>>]
DbList(seq) == [kind |-> "object_list", txs |-> seq]

InitialDbFiles ==
    { DbAbsent, DbInvalid, DbArray, DbNoKey, DbNumber,
      DbList(<<>>), DbList(<<"0xa", "0xa">>), DbList(<<"0xb", "0xa">>) }

Range(seq) == { seq[i] : i \in 1..Len(seq) }

\* A list that holds one id of the set only.
SetToList_one(S) == IF S = {} THEN <<>> ELSE << CHOOSE y \in S : TRUE >>

RECURSIVE SetToList(_)
\* list(self.processed_txs): the ids of the set, each once.
SetToList(S) ==
    IF S = {} THEN <<>>
    ELSE LET x == CHOOSE y \in S : TRUE
         IN  <<x>> \o SetToList(S \ {x})

\* StateDB._load: the set it returns, whether it logged an error, and whether an
\* exception escaped it (AttributeError on a JSON array, TypeError on set(5)).
Load(d) ==
    CASE d.kind = "absent" -> [raised |-> FALSE, logged |-> FALSE, txs |-> {}]
      [] d.kind = "invalid" -> [raised |-> FALSE, logged |-> TRUE, txs |-> {}]
      [] d.kind = "array" -> [raised |-> TRUE, logged |-> FALSE, txs |-> {}]
      [] d.kind = "object_no_key" -> [raised |-> FALSE, logged |-> FALSE, txs |-> {}]
      [] d.kind = "object_number" -> [raised |-> TRUE, logged |-> FALSE, txs |-> {}]
      [] d.kind = "object_list" ->
            [raised |-> FALSE, logged |-> FALSE, txs |-> Range(d.txs)]

FlushOutcomes == {"ok", "open_failed", "write_failed"}

\* A flush that reports success without rewriting the file.
Save_stale(d, S, outcome) ==
    CASE outcome = "ok" -> d
      [] outcome = "open_failed" -> d
      [] outcome = "write_failed" -> DbInvalid

\* StateDB._save: the db file after a flush of the set S with the given outcome.
\* open(path, 'w') truncates the file before json.dump writes.
Save(d, S, outcome) ==
    CASE outcome = "ok" -> DbList(SetToList(S))
      [] outcome = "open_failed" -> d
      [] outcome = "write_failed" -> DbInvalid

\* _save without its except clause: a failed flush leaves it as an exception.
SaveRaises_propagates(outcome) == outcome # "ok"

\* The try/except of _save, lines 71-75: IOError (every OSError) is logged and
\* not re-raised, so no outcome of the flush leaves _save as an exception.
SaveRaises(outcome) == FALSE

\* A lookup that never finds the id.
is_processed_never(S, tx) == FALSE

\* StateDB.is_processed
is_processed(S, tx) == tx \in S

\* An insertion that replaces the set by the new id.
mark_replace(S, tx) == {tx}

\* StateDB.mark_as_processed, line 94: the in-memory insertion
mark_add(S, tx) == S \cup {tx}

\* ------------------------------------------------------------ process_event
\* The validation with amount left out of all([...]).
IsMalformed_amount_unchecked(e) == ~(Truthy(e.sender) /\ Truthy(e.toChainId))

\* Line 230: not all([sender, amount, target_chain_id])
IsMalformed(e) == ~(Truthy(e.sender) /\ Truthy(e.amount) /\ Truthy(e.toChainId))

\* The chain check with its comparison inverted.
IsWrongChain_inverted(e) == e.toChainId = PyInt(DestChainId)

\* Line 237: target_chain_id != destination_chain_id
IsWrongChain(e) == e.toChainId # PyInt(DestChainId)

\* ------------------------------------------------------------------- listen
\* The range test with != in place of >.
HasNewBlocks_neq(latest, lpb) == latest # lpb

\* A range decision that waits for two new blocks.
HasNewBlocks_lagging(latest, lpb) == latest > lpb + 1

\* Line 268: latest_block > self.last_processed_block
HasNewBlocks(latest, lpb) == latest > lpb

\* A failed height query followed by the doubled sleep.
HeightFailSleep_backoff == poll_interval * 2

\* Line 265: the sleep after get_latest_block_number returned None
HeightFailSleep == poll_interval

\* Line 289: the sleep that ends a cycle without an exception
NormalSleep == poll_interval

\* Line 294: the sleep of the except clause
BackoffSleep == poll_interval * 2

\* CONFIG['listener']['start_block']: 'latest' or a block number.
StartBlockConfigs == {PyStr("latest"), PyInt(0), PyInt(2)}

\* isinstance(start_block_config, int)
IsInt(v) == v.t = "int"

Max(a, b) == IF a >= b THEN a ELSE b

\* A log entry as web3 hands it to process_event: the event with its place.
Entry(e, b, i) ==
    [tx |-> e.tx, sender |-> e.sender, amount |-> e.amount,
     toChainId |-> e.toChainId, blockNumber |-> b, logIndex |-> i]

\* The entries of block b, log index 0 first.
BlockLogs(ch, b) == [i \in 1..Len(ch[b]) |-> Entry(ch[b][i], b, i - 1)]

RECURSIVE LogsIn(_, _, _)
\* The entries of the blocks fromBlock..toBlock, by block and log index.
LogsIn(ch, from, to) ==
    IF from > to \/ from > Len(ch) THEN <<>>
    ELSE BlockLogs(ch, from) \o LogsIn(ch, from + 1, to)

Reverse(seq) == [i \in 1..Len(seq) |-> seq[Len(seq) + 1 - i]]

\* The order in which the ledger client lists the entries of a range; listen
\* takes the list as it comes.
ClientOrders == {"ascending", "descending"}

\* get_all_entries: what the client returns for the entries of a range.
Returned(logs, order) == IF order = "ascending" THEN logs ELSE Reverse(logs)

VARIABLES
    chain,                \* source chain: chain[b] is the log entries of block b
    disk,                 \* the db file
    start_block,          \* CONFIG['listener']['start_block']
    pc,                   \* "boot", "poll", "scan", "process", "exited"
    processed_txs,        \* StateDB.processed_txs
    last_processed_block, \* CrossChainEventListener.last_processed_block
    from_block, to_block, \* the range of the current cycle
    events, idx,          \* the entries of the range and the next one to process
    minted,               \* per transaction id: mints simulated in this run
    last_sleep,           \* duration of the latest time.sleep
    last_cycle,           \* how the latest cycle ended
    last_flush,           \* outcome of the latest _save of this run
    last_event,           \* how the latest process_event call ended
    exit_code,            \* exit status of the process, once it has ended
    exit_why,             \* what ended it
    prev_reached,         \* highest last_processed_block of earlier runs
    start_at,             \* history: the start block of this run
    prev_to,              \* history: to_block of the latest completed cycle
    covered,              \* history: per block, completed scans that held it
    loaded,               \* history: the ids _load returned at startup
    failed_ids,           \* history: ids of this run whose own flush failed
    calm                  \* TRUE once the RPC calls have stopped failing

vars == << chain, disk, start_block, pc, processed_txs, last_processed_block,
           from_block, to_block, events, idx, minted, last_sleep, last_cycle,
           last_flush, last_event, exit_code, exit_why, prev_reached,
           start_at, prev_to, covered, loaded, failed_ids, calm >>

\* The history of completed scans.
hist == << start_at, prev_to, covered >>

NoScans == [b \in 1..MaxBlock |-> 0]

\* The scan counts after a completed scan of the blocks from..to.
Scanned(cov, from, to) ==
    [b \in 1..MaxBlock |-> IF from <= b /\ b <= to THEN cov[b] + 1 ELSE cov[b]]

NoMints == [t \in TxIds |-> 0]

Init ==
    /\ chain = <<>>
    /\ disk \in InitialDbFiles
    /\ start_block \in StartBlockConfigs
    /\ pc = "boot"
    /\ processed_txs = {}
    /\ last_processed_block = 0
    /\ from_block = 0
    /\ to_block = 0
    /\ events = <<>>
    /\ idx = 0
    /\ minted = NoMints
    /\ last_sleep = 0
    /\ last_cycle = "none"
    /\ last_flush = "none"
    /\ last_event = "none"
    /\ exit_code = -1
    /\ exit_why = "none"
    /\ prev_reached = 0
    /\ start_at = 0
    /\ prev_to = 0
    /\ covered = NoScans
    /\ loaded = {}
    /\ failed_ids = {}
    /\ calm = FALSE

\* The source chain gains a block.
Mine ==
    /\ Len(chain) < MaxBlock
    /\ \E body \in BlockBodies : chain' = Append(chain, body)
    /\ UNCHANGED << disk, start_block, pc, processed_txs, last_processed_block,
                    from_block, to_block, events, idx, minted, last_sleep,
                    last_cycle, last_flush, last_event, exit_code, exit_why,
                    prev_reached, hist, loaded, failed_ids,
                    calm >>

\* The process ends.
Exit(code, why) ==
    /\ pc' = "exited"
    /\ exit_code' = code
    /\ exit_why' = why

\* __main__, lines 306-308: the placeholder check.
BootPlaceholder ==
    /\ pc = "boot"
    /\ Exit(1, "placeholder")
    /\ UNCHANGED << chain, disk, start_block, processed_txs, last_processed_block,
                    from_block, to_block, events, idx, minted, last_sleep,
                    last_cycle, last_flush, last_event, prev_reached, hist, loaded, failed_ids,
                    calm >>

\* BlockchainConnector.__init__ raises ConnectionError; __main__ logs it and
\* the script ends normally.
BootConnFail ==
    /\ pc = "boot"
    /\ Exit(0, "connection")
    /\ UNCHANGED << chain, disk, start_block, processed_txs, last_processed_block,
                    from_block, to_block, events, idx, minted, last_sleep,
                    last_cycle, last_flush, last_event, prev_reached, hist, loaded, failed_ids,
                    calm >>

\* StateDB.__init__: _load raises; __main__'s except Exception logs it.
BootLoadRaise ==
    /\ pc = "boot"
    /\ Load(disk).raised
    /\ Exit(0, "load")
    /\ UNCHANGED << chain, disk, start_block, processed_txs, last_processed_block,
                    from_block, to_block, events, idx, minted, last_sleep,
                    last_cycle, last_flush, last_event, prev_reached, hist, loaded, failed_ids,
                    calm >>

\* _get_start_block with 'latest' and a failing height query: exit(1).
BootStartFail ==
    /\ pc = "boot"
    /\ ~Load(disk).raised
    /\ ~IsInt(start_block)
    /\ processed_txs' = Load(disk).txs
    /\ Exit(1, "start_block")
    /\ UNCHANGED << chain, disk, start_block, last_processed_block,
                    from_block, to_block, events, idx, minted, last_sleep,
                    last_cycle, last_flush, last_event, prev_reached, hist, loaded, failed_ids,
                    calm >>

\* _get_start_block: the configured block number, or the latest height.
StartBlock(cfg, latest) == IF IsInt(cfg) THEN cfg.n ELSE latest

\* CrossChainEventListener.__init__ completes and listen() reaches its loop.
BootOk ==
    /\ pc = "boot"
    /\ ~Load(disk).raised
    /\ processed_txs' = Load(disk).txs
    /\ last_processed_block' = StartBlock(start_block, Len(chain))
    /\ pc' = "poll"
    /\ start_at' = last_processed_block'
    /\ prev_to' = last_processed_block'
    /\ covered' = NoScans
    /\ loaded' = Load(disk).txs
    /\ failed_ids' = {}
    /\ UNCHANGED << chain, disk, start_block, from_block, to_block, events, idx,
                    minted, last_sleep, last_cycle, last_flush, last_event,
                    exit_code, exit_why, prev_reached, calm >>

\* A range that starts one block after the block it should start at.
NextFrom_gap(lpb) == lpb + 2

\* Line 269: the first block of the next range.
NextFrom(lpb) == lpb + 1

\* listen, lines 262-271 and 286-289: the height query and the range decision.
Poll ==
    /\ pc = "poll"
    /\ \/ \* get_latest_block_number returned None
          /\ last_sleep' = HeightFailSleep
          /\ last_cycle' = "height_failed"
          /\ UNCHANGED << pc, from_block, to_block >>
       \/ /\ ~HasNewBlocks(Len(chain), last_processed_block)
          /\ last_sleep' = NormalSleep
          /\ last_cycle' = "no_new_blocks"
          /\ UNCHANGED << pc, from_block, to_block >>
       \/ /\ HasNewBlocks(Len(chain), last_processed_block)
          /\ from_block' = NextFrom(last_processed_block)
          /\ to_block' = Len(chain)
          /\ pc' = "scan"
          /\ UNCHANGED << last_sleep, last_cycle >>
    /\ UNCHANGED << chain, disk, start_block, processed_txs, last_processed_block,
                    events, idx, minted, last_flush, last_event, exit_code,
                    exit_why, prev_reached, hist, loaded, failed_ids,
                    calm >>

\* An exception that is not caught in listen: it ends the process.
Backoff_fatal ==
    /\ pc' = "exited"
    /\ exit_code' = 1
    /\ exit_why' = "exception"
    /\ UNCHANGED << last_processed_block, last_sleep, last_cycle, hist >>

\* An except clause that also moves last_processed_block to the end of the range.
Backoff_advancing ==
    /\ last_sleep' = BackoffSleep
    /\ last_cycle' = "exception"
    /\ pc' = "poll"
    /\ last_processed_block' = to_block
    /\ UNCHANGED << exit_code, exit_why, hist >>

\* The except clause of listen, lines 291-294.
Backoff ==
    /\ last_sleep' = BackoffSleep
    /\ last_cycle' = "exception"
    /\ pc' = "poll"
    /\ UNCHANGED << last_processed_block, exit_code, exit_why, hist >>

\* A completion that stores the start of the range.
Complete_from ==
    /\ last_processed_block' = from_block
    /\ last_sleep' = NormalSleep
    /\ last_cycle' = "completed"
    /\ pc' = "poll"
    /\ prev_to' = to_block
    /\ covered' = Scanned(covered, from_block, to_block)
    /\ UNCHANGED << exit_code, exit_why, start_at >>

\* Lines 285 and 289: the range is done.
Complete ==
    /\ last_processed_block' = to_block
    /\ last_sleep' = NormalSleep
    /\ last_cycle' = "completed"
    /\ pc' = "poll"
    /\ prev_to' = to_block
    /\ covered' = Scanned(covered, from_block, to_block)
    /\ UNCHANGED << exit_code, exit_why, start_at >>

\* listen, lines 273-283: create_filter and get_all_entries.
Scan ==
    /\ pc = "scan"
    /\ \/ \* the RPC raises
          /\ Backoff
          /\ UNCHANGED << events, idx >>
       \/ /\ \E order \in ClientOrders :
               events' = Returned(LogsIn(chain, from_block, to_block), order)
          /\ IF events' = <<>>
             THEN Complete /\ idx' = 0
             ELSE /\ pc' = "process"
                  /\ idx' = 1
                  /\ UNCHANGED << last_processed_block, last_sleep, last_cycle,
                                  exit_code, exit_why, hist >>
    /\ UNCHANGED << chain, disk, start_block, processed_txs, from_block, to_block,
                    minted, last_flush, last_event, prev_reached, loaded,
                    failed_ids, calm >>

\* After process_event returned: the for loop moves on, or the range is done.
Advance ==
    IF idx = Len(events)
    THEN Complete /\ UNCHANGED idx
    ELSE /\ idx' = idx + 1
         /\ UNCHANGED << pc, last_processed_block, last_sleep, last_cycle,
                         exit_code, exit_why, hist >>

\* A skip that also records the id as processed.
Skip_marking(how) ==
    /\ last_event' = how
    /\ Advance
    /\ processed_txs' = processed_txs \cup {events[idx].tx}
    /\ UNCHANGED << disk, minted, last_flush, failed_ids >>

\* process_event returned before the mint; how is the log line it wrote.
Skip(how) ==
    /\ last_event' = how
    /\ Advance
    /\ UNCHANGED << processed_txs, disk, minted, last_flush, failed_ids >>

\* process_event raised: the except clause of listen takes over.
Raise ==
    /\ last_event' = "raised"
    /\ Backoff
    /\ UNCHANGED idx

Faults == {"none", "chain_id", "oracle"}

\* A process_event that validates the arguments before the dedup lookup.
ProcessEvent_validating_first ==
    /\ pc = "process"
    /\ \E fault \in Faults, outcome \in FlushOutcomes :
         LET e == events[idx]
         IN  IF IsMalformed(e) THEN Skip("malformed")
             ELSE IF is_processed(processed_txs, e.tx) THEN Skip("duplicate")
             ELSE IF fault = "chain_id"
             THEN Raise /\ UNCHANGED << processed_txs, disk, minted, last_flush,
                                        failed_ids >>
             ELSE IF IsWrongChain(e) THEN Skip("wrong_chain")
             ELSE IF fault = "oracle"
             THEN Raise /\ UNCHANGED << processed_txs, disk, minted, last_flush,
                                        failed_ids >>
             ELSE /\ minted[e.tx] < MaxMints
                  /\ minted' = [minted EXCEPT ![e.tx] = @ + 1]
                  /\ processed_txs' = mark_add(processed_txs, e.tx)
                  /\ disk' = Save(disk, processed_txs', outcome)
                  /\ last_flush' = outcome
                  /\ failed_ids' = IF outcome = "ok" THEN failed_ids
                                    ELSE failed_ids \cup {e.tx}
                  /\ IF SaveRaises(outcome)
                     THEN Raise
                     ELSE last_event' = "minted" /\ Advance
    /\ UNCHANGED << chain, start_block, from_block, to_block, events,
                    prev_reached, loaded, calm >>

\* One iteration of the for loop of listen: process_event(events[idx]).
\* fault: the destination chain-id lookup (line 236) or the gas-oracle call
\* (lines 206-207, an error other than RequestException) raises.
ProcessEvent ==
    /\ pc = "process"
    /\ \E fault \in Faults, outcome \in FlushOutcomes :
         LET e == events[idx]
         IN  IF is_processed(processed_txs, e.tx) THEN Skip("duplicate")
             ELSE IF IsMalformed(e) THEN Skip("malformed")
             ELSE IF fault = "chain_id"
             THEN Raise /\ UNCHANGED << processed_txs, disk, minted, last_flush,
                                        failed_ids >>
             ELSE IF IsWrongChain(e) THEN Skip("wrong_chain")
             ELSE IF fault = "oracle"
             THEN Raise /\ UNCHANGED << processed_txs, disk, minted, last_flush,
                                        failed_ids >>
             ELSE /\ minted[e.tx] < MaxMints
                  /\ minted' = [minted EXCEPT ![e.tx] = @ + 1]
                  /\ processed_txs' = mark_add(processed_txs, e.tx)
                  /\ disk' = Save(disk, processed_txs', outcome)
                  /\ last_flush' = outcome
                  /\ failed_ids' = IF outcome = "ok" THEN failed_ids
                                    ELSE failed_ids \cup {e.tx}
                  /\ IF SaveRaises(outcome)
                     THEN Raise
                     ELSE last_event' = "minted" /\ Advance
    /\ UNCHANGED << chain, start_block, from_block, to_block, events,
                    prev_reached, loaded, calm >>

\* The process is killed, or has ended, and is started again: memory is lost,
\* the db file and the chain stay.
Restart ==
    /\ pc # "boot"
    /\ prev_reached' =
          IF pc = "exited" THEN prev_reached
          ELSE Max(prev_reached, last_processed_block)
    /\ pc' = "boot"
    /\ processed_txs' = {}
    /\ last_processed_block' = 0
    /\ from_block' = 0
    /\ to_block' = 0
    /\ events' = <<>>
    /\ idx' = 0
    /\ minted' = NoMints
    /\ last_sleep' = 0
    /\ last_cycle' = "none"
    /\ last_flush' = "none"
    /\ last_event' = "none"
    /\ exit_code' = -1
    /\ exit_why' = "none"
    /\ start_at' = 0
    /\ prev_to' = 0
    /\ covered' = NoScans
    /\ loaded' = {}
    /\ failed_ids' = {}
    /\ UNCHANGED << chain, disk, start_block, calm >>

Next ==
    \/ Mine
    \/ BootPlaceholder
    \/ BootConnFail
    \/ BootLoadRaise
    \/ BootStartFail
    \/ BootOk
    \/ Poll
    \/ Scan
    \/ ProcessEvent
    \/ Restart

Spec == Init /\ [][Next]_vars

\* ------------------------------------------- one run with failures that stop
\* Every variable but calm.
progvars == << chain, disk, start_block, pc, processed_txs, last_processed_block,
               from_block, to_block, events, idx, minted, last_sleep,
               last_cycle, last_flush, last_event, exit_code, exit_why,
               prev_reached, hist, loaded, failed_ids >>

\* From here on the height query (line 262), the log retrieval (273-277) and
\* process_event (281) raise no more and the height query returns a number.
Calm ==
    /\ ~calm
    /\ calm' = TRUE
    /\ UNCHANGED progvars

\* A step of listen in which one of its calls failed: the height query
\* returned None (263), get_all_entries raised or process_event raised (291).
Failed ==
    \/ pc = "poll" /\ pc' = "poll" /\ last_cycle' = "height_failed"
    \/ pc = "scan" /\ pc' = "poll" /\ last_cycle' = "exception"
    \/ pc = "process" /\ last_event' = "raised"

LivePoll == Poll /\ (calm => ~Failed)

LiveScan == Scan /\ (calm => ~Failed)

LiveProcessEvent == ProcessEvent /\ (calm => ~Failed)

\* One process run: no restart, and no failing call once calm.
LiveNext ==
    \/ Calm
    \/ Mine
    \/ BootPlaceholder
    \/ BootConnFail
    \/ BootLoadRaise
    \/ BootStartFail
    \/ BootOk
    \/ LivePoll
    \/ LiveScan
    \/ LiveProcessEvent

\* The while loop of listen keeps running (its sleeps end), and the failures
\* stop at some point.
LiveSpec ==
    /\ Init
    /\ [][LiveNext]_vars
    /\ WF_vars(Calm)
    /\ WF_vars(LivePoll)
    /\ WF_vars(LiveScan)
    /\ WF_vars(LiveProcessEvent)

\* ================================================================= claims
\* The ids for which mark_as_processed has returned in this process run.
Marked == { t \in TxIds : minted[t] > 0 }

Running == pc \in {"poll", "scan", "process"}

\* The arguments and the hash of a log entry, without its place.
ArgsOf(e) == Ev(e.tx, e.sender, e.amount, e.toChainId)

\* Entry a lies before entry b in (blockNumber, logIndex) order.
Before(a, b) ==
    \/ a.blockNumber < b.blockNumber
    \/ a.blockNumber = b.blockNumber /\ a.logIndex < b.logIndex

\* A step of the for loop of listen: one process_event call.
LoopStep == pc = "process" /\ pc' # "boot" /\ chain' = chain

\* C1: within one process run the mint is performed at most once for every
\* transaction id, whatever is re-delivered, and processing an event whose id
\* is already in the dedup set changes neither the set, the db file nor the
\* mints.
C1_DispatchAtMostOnce ==
    /\ [](\A t \in TxIds : minted[t] <= 1)
    /\ [][(LoopStep /\ events[idx].tx \in processed_txs)
            => (processed_txs' = processed_txs /\ minted' = minted
                /\ disk' = disk)]_vars

\* C1 witness: the first event of a range re-scanned after a failed cycle was
\* minted in an earlier cycle and has just been skipped as a duplicate.
C1_Witness ==
    /\ pc = "process"
    /\ idx = 2
    /\ last_event = "duplicate"
    /\ last_cycle = "exception"
    /\ ArgsOf(events[1]) = Good("0xa")
    /\ minted["0xa"] = 1

\* C2 as stated: every id marked in this run is in the in-memory set and in
\* the set a fresh StateDB loads from the db file, whatever the flush did.
C2_Original ==
    \A t \in Marked :
        /\ t \in processed_txs
        /\ ~Load(disk).raised
        /\ t \in Load(disk).txs

\* C2 amended: every id marked in this run is in the in-memory set, and it is
\* in the set a fresh StateDB loads from the db file whenever the latest flush
\* of the run succeeded.
C2_DurableAfterSuccessfulFlush ==
    \A t \in Marked :
        /\ t \in processed_txs
        /\ last_flush = "ok" => (~Load(disk).raised /\ t \in Load(disk).txs)

\* C2 witness: two ids were marked and the latest flush succeeded.
C2_Witness ==
    /\ last_flush = "ok"
    /\ Cardinality(Marked) = 2
    /\ Marked \subseteq Load(disk).txs

\* C3: a mark whose flush fails still inserts the id, returns normally (the
\* for loop moves on or the cycle completes with the normal sleep, never the
\* except clause), and every id marked stays in the in-memory set.
C3_FlushFailureSwallowed ==
    /\ [](Marked \subseteq processed_txs)
    /\ [][(LoopStep /\ minted' # minted /\ last_flush' # "ok")
            => /\ events[idx].tx \in processed_txs'
               /\ last_event' = "minted"
               /\ IF idx < Len(events)
                  THEN pc' = "process" /\ idx' = idx + 1
                       /\ last_cycle' = last_cycle
                  ELSE pc' = "poll" /\ last_cycle' = "completed"
                       /\ last_sleep' = poll_interval
                       /\ last_processed_block' = to_block]_vars

\* C3 witness: a mint whose flush failed part-way, the loop now at the next
\* event of the same range.
C3_Witness ==
    /\ pc = "process"
    /\ idx >= 2
    /\ last_event = "minted"
    /\ last_flush = "write_failed"
    /\ events[idx - 1].tx \in processed_txs

\* C4: processing an event whose toChainId is not the destination chain id
\* never mints and leaves the in-memory set and the db file unchanged.
C4_WrongChainNoEffect ==
    [][(LoopStep /\ events[idx].toChainId # PyInt(DestChainId))
         => (minted' = minted /\ processed_txs' = processed_txs
             /\ disk' = disk)]_vars

\* C4 witness: an event for another chain has been skipped and the dedup
\* store is still empty.
C4_Witness ==
    /\ last_event = "wrong_chain"
    /\ processed_txs = {}
    /\ disk = DbAbsent
    /\ minted = NoMints

\* C5: an event with sender, amount or toChainId absent, zero or empty is
\* skipped without a mint, a mark or an exception; the loop goes to the next
\* event, or after the last one sets last_processed_block to the range's end.
C5_MalformedSkipped ==
    [][(LoopStep /\ (\/ ~Truthy(events[idx].sender)
                     \/ ~Truthy(events[idx].amount)
                     \/ ~Truthy(events[idx].toChainId)))
         => /\ minted' = minted
            /\ processed_txs' = processed_txs
            /\ disk' = disk
            /\ last_event' \in {"malformed", "duplicate"}
            /\ IF idx < Len(events)
               THEN pc' = "process" /\ idx' = idx + 1
               ELSE pc' = "poll" /\ last_cycle' = "completed"
                    /\ last_processed_block' = to_block]_vars

\* C5 witness: a range of an event without amount followed by a valid one has
\* completed: the second was minted, the first is not in the dedup set.
C5_Witness ==
    /\ pc = "poll"
    /\ last_cycle = "completed"
    /\ Len(events) = 2
    /\ ArgsOf(events[1]) = NoAmount("0xb")
    /\ ArgsOf(events[2]) = Good("0xc")
    /\ minted["0xc"] = 1
    /\ "0xb" \notin processed_txs
    /\ last_processed_block = to_block

\* C6 as stated: last_processed_block never decreases within a run, and a
\* restarted process starts no lower than earlier runs had reached.
C6_Original ==
    [][/\ (Running /\ pc' \in {"poll", "scan", "process"})
            => last_processed_block' >= last_processed_block
       /\ (pc = "boot" /\ pc' = "poll")
            => last_processed_block' >= prev_reached]_vars

\* C6 amended: last_processed_block never decreases within a run, and a
\* process restarted with start_block 'latest' starts no lower than earlier
\* runs had reached.
C6_MonotoneWithinRun ==
    [][/\ (Running /\ pc' \in {"poll", "scan", "process"})
            => last_processed_block' >= last_processed_block
       /\ (pc = "boot" /\ pc' = "poll" /\ ~IsInt(start_block))
            => last_processed_block' >= prev_reached]_vars

\* C6 witness: a process restarted with 'latest' after an earlier run had
\* reached a block has completed a further range.
C6_Witness ==
    /\ pc = "poll"
    /\ ~IsInt(start_block)
    /\ prev_reached >= 1
    /\ last_cycle = "completed"
    /\ last_processed_block > prev_reached

C8_ExceptionAbortsCycle ==
    /\ [][(pc \in {"scan", "process"} /\ pc' = "poll"
           /\ last_cycle' = "exception")
            => /\ last_processed_block' = last_processed_block
               /\ last_sleep' = 2 * poll_interval
               /\ minted' = minted
               /\ processed_txs' = processed_txs
               /\ idx' = idx]_vars
    /\ [][(pc = "poll" /\ pc' = "scan" /\ last_cycle = "exception")
            => /\ from_block' = from_block
               /\ from_block' = last_processed_block + 1]_vars

\* C8 witness: process_event raised before the last event of a range in which
\* an earlier event was minted, and the next scan of the same range is due.
C8_Witness ==
    /\ pc = "scan"
    /\ last_cycle = "exception"
    /\ last_event = "raised"
    /\ idx < Len(events)
    /\ idx >= 2
    /\ minted # NoMints
    /\ from_block = last_processed_block + 1

\* C9 as stated: after a flush that failed, the db file loads to the set of
\* ids it loaded to before the flush.
C9_FlushFailureKeepsSnapshot ==
    [][(LoopStep /\ minted' # minted /\ last_flush' # "ok")
         => Load(disk').txs = Load(disk).txs]_vars

\* C10 as stated: constructing the StateDB never fails on the file's content;
\* a file that is not an object with a processed_txs list yields the empty
\* set, a list yields the set of its elements.
C10_ConstructionNeverFails ==
    [][pc = "boot"
         => /\ ~(pc' = "exited" /\ exit_why' = "load")
            /\ (pc' = "poll" /\ disk.kind # "object_list")
                 => processed_txs' = {}
            /\ (pc' = "poll" /\ disk.kind = "object_list")
                 => processed_txs' = Range(disk.txs)]_vars

\* C11: once in the while loop of listen the process never ends by itself:
\* whatever fails (height query, log retrieval, chain-id lookup, gas oracle,
\* event processing), no step takes it to the exited state, and a further
\* step of the loop is always possible.
C11_LoopNeverExits ==
    /\ [](Running => ENABLED (Poll \/ Scan \/ ProcessEvent))
    /\ [][Running => pc' # "exited"]_vars

\* C11 witness: process_event raised, the except clause caught it, and the
\* loop is at the top of a further iteration.
C11_Witness ==
    /\ pc = "poll"
    /\ last_cycle = "exception"
    /\ last_event = "raised"
    /\ last_sleep = 2 * poll_interval
    /\ exit_code = -1

\* C12 as stated: a process that ended at startup because of the placeholder
\* configuration, a failed connection or an unresolved start block ended with
\* exit code 1.
C12_StartupFailuresExitOne ==
    (pc = "exited" /\ exit_why \in {"placeholder", "connection", "start_block"})
        => exit_code = 1

\* C13 as stated: within a cycle the entries are processed in ascending
\* (blockNumber, logIndex) order: the entry the for loop has just processed
\* lies before the one it processes next.
C13_AscendingOrder ==
    (pc = "process" /\ idx >= 2) => Before(events[idx - 1], events[idx])

\* C14: within a process run the in-memory set only grows: after every step
\* of the run (cycles, marks with or without flush failures) it is a superset
\* of what it was, and a lookup that finds the id leaves it as it was.
C14_AppendOnly ==
    [][/\ pc' # "boot" => processed_txs \subseteq processed_txs'
       /\ (LoopStep /\ last_event' = "duplicate")
            => processed_txs' = processed_txs]_vars

\* C14 witness: the set holds an id loaded at startup and an id marked in
\* this run whose flush failed, and a duplicate has just been looked up.
C14_Witness ==
    /\ Running
    /\ last_event = "duplicate"
    /\ last_flush = "open_failed"
    /\ Marked # {}
    /\ processed_txs \ Marked # {}

\* C15: a cycle that finds the height L above last_processed_block scans
\* exactly the blocks last_processed_block + 1 .. L, and when the scan and
\* every process_event call end without an exception last_processed_block
\* becomes L, with no, skipped or minted events alike; a cycle that finds
\* L <= last_processed_block scans nothing and changes neither
\* last_processed_block nor the dedup set.
C15_RangeAndAdvance ==
    /\ [][(pc = "poll" /\ pc' = "scan")
            => /\ Len(chain) > last_processed_block
               /\ from_block' = last_processed_block + 1
               /\ to_block' = Len(chain)]_vars
    /\ [](pc = "process"
            => /\ from_block = last_processed_block + 1
               /\ Len(events) = Len(LogsIn(chain, from_block, to_block))
               /\ \A i \in 1..Len(events) :
                     /\ events[i].blockNumber \in from_block..to_block
                     /\ ArgsOf(events[i]) =
                          chain[events[i].blockNumber][events[i].logIndex + 1])
    /\ [][(pc = "scan" /\ pc' = "poll" /\ last_cycle' # "exception")
            => (last_processed_block' = to_block /\ last_cycle' = "completed")]_vars
    /\ [][(LoopStep /\ idx = Len(events) /\ last_event' # "raised")
            => (pc' = "poll" /\ last_processed_block' = to_block
                /\ last_cycle' = "completed")]_vars
    /\ [][(pc = "poll" /\ pc' # "boot" /\ Len(chain) <= last_processed_block)
            => /\ pc' = "poll"
               /\ last_processed_block' = last_processed_block
               /\ processed_txs' = processed_txs
               /\ disk' = disk]_vars

\* C15 witness: the range of blocks 1..2 with a skipped and a minted event
\* has completed and last_processed_block is 2.
C15_Witness ==
    /\ pc = "poll"
    /\ last_cycle = "completed"
    /\ from_block = 1
    /\ to_block = 2
    /\ last_processed_block = 2
    /\ minted # NoMints
    /\ \E i \in 1..Len(events) : ~Truthy(events[i].amount)

\* C16: an id enters the dedup set during a run only in a process_event call
\* for an event with that id that has all three arguments and the
\* destination's chain id, and in which the mint was performed.
C16_MarkOnlyAfterMint ==
    [][(pc # "boot" /\ pc' # "boot")
         => \A t \in processed_txs' \ processed_txs :
              /\ LoopStep
              /\ events[idx].tx = t
              /\ Truthy(events[idx].sender)
              /\ Truthy(events[idx].amount)
              /\ events[idx].toChainId = PyInt(DestChainId)
              /\ minted'[t] = minted[t] + 1
              /\ last_event' = "minted"]_vars

\* C16 witness: in one range an event for another chain was passed over
\* unmarked and a valid one was minted and marked.
C16_Witness ==
    /\ last_event = "minted"
    /\ Marked = {"0xa"}
    /\ processed_txs = {"0xa"}
    /\ \E i \in 1..Len(events) :
          events[i].tx = "0xb" /\ events[i].toChainId = PyInt(1)

\* C17: within one process run the ranges of the completed cycles are
\* contiguous and do not overlap: a completed cycle's from_block is the
\* to_block of the completed cycle before it plus one (the start block plus
\* one for the first), so every block after the start block and up to
\* last_processed_block was in exactly one completed scan, and no other block
\* was in any, whatever cycles failed in between.
C17_ContiguousRanges ==
    /\ [](Running
            => /\ prev_to = last_processed_block
               /\ \A b \in 1..MaxBlock :
                     covered[b] = IF start_at < b /\ b <= last_processed_block
                                  THEN 1 ELSE 0)
    /\ [][(pc \in {"scan", "process"} /\ pc' = "poll"
              /\ last_cycle' = "completed")
            => /\ from_block = prev_to + 1
               /\ from_block <= to_block
               /\ last_processed_block' = to_block]_vars

\* C17 witness: after a completed cycle over block 1, a cycle over block 2
\* failed and left block 2 to the next cycle.
C17_Witness ==
    /\ pc = "poll"
    /\ last_cycle = "exception"
    /\ start_at = 0
    /\ from_block = 2
    /\ to_block = 2
    /\ last_processed_block = 1
    /\ covered[1] = 1
    /\ covered[2] = 0

\* C18: the dedup lookup uses the transaction hash alone and comes first in
\* process_event. Within a process run, once an event with a hash was minted
\* or the hash is in the dedup set, every later event with that hash, in the
\* same or a later range and whatever its arguments, is passed over as a
\* duplicate: its arguments are not validated, the destination chain id is
\* not looked up (so the call cannot raise), nothing is minted or marked, and
\* the loop moves on to the next event or completes the range.
C18_DedupByHashFirst ==
    /\ [](Running => Marked \subseteq processed_txs)
    /\ [][(LoopStep /\ (minted[events[idx].tx] >= 1
                          \/ events[idx].tx \in processed_txs))
            => /\ last_event' = "duplicate"
               /\ minted' = minted
               /\ processed_txs' = processed_txs
               /\ last_flush' = last_flush
               /\ IF idx < Len(events)
                  THEN pc' = "process" /\ idx' = idx + 1
                  ELSE pc' = "poll" /\ last_cycle' = "completed"]_vars

\* C18 witness: 0xa was minted in the range of block 1; in the next range an
\* event with the hash 0xa and no toChainId came first and was passed over as
\* a duplicate, not as malformed.
C18_Witness ==
    /\ pc = "process"
    /\ idx = 2
    /\ from_block = 2
    /\ last_event = "duplicate"
    /\ events[1].tx = "0xa"
    /\ ~Truthy(events[1].toChainId)
    /\ events[1].logIndex = 2
    /\ minted["0xa"] = 1

\* C19: a flush writes the whole in-memory set. Within a run the set is the
\* ids loaded at startup and the ids marked since; whenever the latest flush
\* succeeded, a StateDB loaded from the db file gets exactly that set, the ids
\* whose own flush had failed earlier in the run included; and the step of a
\* successful flush stores the set as it was plus the id just marked.
C19_FlushWritesWholeSet ==
    /\ [](Running => processed_txs = loaded \cup Marked)
    /\ [](Running => failed_ids \subseteq Marked)
    /\ []((Running /\ last_flush = "ok")
            => /\ ~Load(disk).raised
               /\ Load(disk).txs = processed_txs
               /\ (loaded \cup Marked \cup failed_ids) \subseteq Load(disk).txs)
    /\ [][(LoopStep /\ minted' # minted /\ last_flush' = "ok")
            => /\ ~Load(disk').raised
               /\ Load(disk').txs = processed_txs \cup {events[idx].tx}]_vars

\* C19 witness: the flush for 0xa failed and left the file unreadable, the
\* flush for 0xc succeeded, and the file now holds both ids.
C19_Witness ==
    /\ Running
    /\ failed_ids = {"0xa"}
    /\ Marked = {"0xa", "0xc"}
    /\ last_flush = "ok"
    /\ last_event = "minted"
    /\ Load(disk).txs = {"0xa", "0xc"}

\* process_event would mint for e: all arguments set, destination chain id.
Accepted(e) ==
    /\ Truthy(e.sender)
    /\ Truthy(e.amount)
    /\ Truthy(e.toChainId)
    /\ e.toChainId = PyInt(DestChainId)

\* Block b of the chain holds an accepted event with the transaction id t.
AcceptedIn(b, t) ==
    /\ b <= Len(chain)
    /\ \E i \in 1..Len(chain[b]) : chain[b][i].tx = t /\ Accepted(chain[b][i])

\* C20 as stated: once the failures have stopped, last_processed_block
\* reaches every height the chain has reached, and every accepted event in a
\* block up to that height whose id is not yet processed is eventually minted
\* and marked.
C20_Original ==
    /\ \A h \in 0..MaxBlock :
          (Running /\ Len(chain) >= h) ~> (last_processed_block >= h)
    /\ \A t \in TxIds : \A b \in 1..MaxBlock :
          (Running /\ AcceptedIn(b, t) /\ t \notin processed_txs)
             ~> (minted[t] >= 1 /\ t \in processed_txs)

\* C20: in a process run in which the loop keeps being scheduled and the
\* failures stop at some point, last_processed_block reaches every height the
\* chain has reached, and every accepted event in a block after the start
\* block of the run whose id is not yet processed is eventually minted and
\* marked. Events in blocks up to the start block are never read.
C20_EventualProgress ==
    /\ \A h \in 0..MaxBlock :
          (Running /\ Len(chain) >= h) ~> (last_processed_block >= h)
    /\ \A t \in TxIds : \A b \in 1..MaxBlock :
          (Running /\ start_at < b /\ AcceptedIn(b, t) /\ t \notin processed_txs)
             ~> (minted[t] >= 1 /\ t \in processed_txs)

\* C20 witness: a cycle failed, the failures have stopped, and the re-scan of
\* the same range has just minted the event the failed cycle left behind.
C20_Witness ==
    /\ calm
    /\ pc = "process"
    /\ last_cycle = "exception"
    /\ last_event = "minted"
    /\ last_processed_block < from_block
    /\ minted[events[idx - 1].tx] = 1
    /\ events[idx - 1].tx \in processed_txs

====
